---- MODULE Spec2Model ----
(***************************************************************************)
(* Model of the Psi-marginal adaptive staircase of src/Psi-marginal/main.py *)
(* (class Psi, function pf, function cartesian) and of the way the shell    *)
(* (TestScreen.where_is_your_finger) drives it.                             *)
(*                                                                          *)
(* Numbers.  The program computes in float64.  The model computes in        *)
(* fixed point: the real v is the integer round(v * Scale).  The three      *)
(* non-finite floats the program can produce (nan, +inf, -inf) are three    *)
(* sentinels, and every arithmetic operator treats them as IEEE-754 does.   *)
(* A table (numpy ndarray) is the flat sequence of its cells in row-major   *)
(* (C) order, which is numpy's memory order, so reshape keeps the data.     *)
(***************************************************************************)
EXTENDS Integers, Sequences, FiniteSets, TLC

\* ------------------------------------------------------------------ bounds
\* The largest number of responses the caller records in one run.
MaxResp == 2
\* The largest trial budget (nTrials) a run is configured with.
MaxBudget == 3
\* The largest number of columns of the parameter rows pf is called with.
MaxCols == 6

\* --------------------------------------------------------------- float64
\* The fraction bits of the fixed-point numbers: the model's resolution.
FracBits == 12
Scale == 2^FracBits
NaN == 2^30 + 1
PInf == 2^30
NInf == -(2^30)
\* Python's None, the "not yet available" value of xCurrent.
None == -(2^30) - 7

IsNaN(a) == a = NaN
IsInf(a) == a = PInf \/ a = NInf
IsFinite(a) == ~IsNaN(a) /\ ~IsInf(a) /\ a # None

\* n / d rounded to the nearest integer, d > 0.
RoundDiv(n, d) == (2 * n + d) \div (2 * d)

\* The fixed-point form of the decimal literal num/den.
Fx(num, den) == RoundDiv(num * Scale, den)

Sign(a) == IF a > 0 THEN 1 ELSE IF a < 0 THEN -1 ELSE 0
InfOf(s) == IF s >= 0 THEN PInf ELSE NInf

FAdd(a, b) ==
    IF IsNaN(a) \/ IsNaN(b) THEN NaN
    ELSE IF IsInf(a) /\ IsInf(b) THEN (IF a = b THEN a ELSE NaN)
    ELSE IF IsInf(a) THEN a
    ELSE IF IsInf(b) THEN b
    ELSE a + b

FNeg(a) == IF IsNaN(a) THEN NaN ELSE IF a = PInf THEN NInf ELSE IF a = NInf THEN PInf ELSE -a

FSub(a, b) == FAdd(a, FNeg(b))

FMul(a, b) ==
    IF IsNaN(a) \/ IsNaN(b) THEN NaN
    ELSE IF IsInf(a) \/ IsInf(b)
         THEN (IF a = 0 \/ b = 0 THEN NaN ELSE InfOf(Sign(a) * Sign(b)))
    ELSE LET n == a * b
         IN  IF n >= 0 THEN RoundDiv(n, Scale) ELSE -RoundDiv(-n, Scale)

\* a / b as numpy divides: 0/0 is nan, x/0 is a signed infinity.
FDiv(a, b) ==
    IF IsNaN(a) \/ IsNaN(b) THEN NaN
    ELSE IF IsInf(a) THEN (IF IsInf(b) THEN NaN ELSE InfOf(Sign(a) * (IF b < 0 THEN -1 ELSE 1)))
    ELSE IF IsInf(b) THEN 0
    ELSE IF b = 0 THEN (IF a = 0 THEN NaN ELSE InfOf(Sign(a)))
    ELSE LET n == a * Scale
             m == IF b > 0 THEN n ELSE -n
             d == IF b > 0 THEN b ELSE -b
         IN  IF m >= 0 THEN RoundDiv(m, d) ELSE -RoundDiv(-m, d)

\* a < b as IEEE compares: false whenever a nan is involved.
FLess(a, b) ==
    IF IsNaN(a) \/ IsNaN(b) THEN FALSE
    ELSE IF a = b THEN FALSE
    ELSE IF a = NInf \/ b = PInf THEN TRUE
    ELSE IF a = PInf \/ b = NInf THEN FALSE
    ELSE a < b

\* floor(log2 p) for an integer p >= 1.
RECURSIVE ILog2(_)
ILog2(p) == IF p < 2 THEN 0 ELSE 1 + ILog2(p \div 2)

\* The fraction bits of log2 of the mantissa m (Scale <= m < 2 Scale), by
\* repeated squaring: bit i is set iff the square reaches 2.
RECURSIVE FracLog2(_, _)
FracLog2(m, i) ==
    IF i > FracBits THEN 0
    ELSE LET sq == (m * m) \div Scale
         IN  IF sq >= 2 * Scale
             THEN (Scale \div (2^i)) + FracLog2(sq \div 2, i + 1)
             ELSE FracLog2(sq, i + 1)

\* ln 2 in fixed point.
Ln2 == Fx(69315, 100000)

\* np.log: the natural logarithm; log(0) = -inf, log(nan) = nan.
Log(p) ==
    IF IsNaN(p) \/ p = NInf \/ (IsFinite(p) /\ p < 0) THEN NaN
    ELSE IF p = PInf THEN PInf
    ELSE IF p = 0 THEN NInf
    ELSE LET e == ILog2(p)
             m == IF e >= FracBits THEN p \div (2^(e - FracBits))
                                   ELSE p * (2^(FracBits - e))
             l2 == (e - FracBits) * Scale + FracLog2(m, 1)
         IN  IF l2 >= 0 THEN RoundDiv(l2 * Ln2, Scale) ELSE -RoundDiv((-l2) * Ln2, Scale)

\* ------------------------------------------------------------- sequences
RECURSIVE SumSeq(_)
SumSeq(s) == IF s = <<>> THEN 0 ELSE FAdd(Head(s), SumSeq(Tail(s)))

RECURSIVE ProdSeq(_)
ProdSeq(s) == IF s = <<>> THEN Scale ELSE FMul(Head(s), ProdSeq(Tail(s)))

RECURSIVE ProdInts(_)
ProdInts(s) == IF s = <<>> THEN 1 ELSE Head(s) * ProdInts(Tail(s))

Lens(arrays) == [n \in 1..Len(arrays) |-> Len(arrays[n])]

\* ------------------------------------------------------------- cartesian
\* cartesian(arrays): the rows of the cartesian product, the last array
\* varying fastest (np.indices(shape).reshape(len(arrays), -1).T).
Stride(lens, n) == ProdInts(SubSeq(lens, n + 1, Len(lens)))

cartesian(arrays) ==
    LET lens == Lens(arrays)
    IN  [r \in 1..ProdInts(lens) |->
            [n \in 1..Len(arrays) |->
                arrays[n][(((r - 1) \div Stride(lens, n)) % lens[n]) + 1]]]

\* ------------------------------------------------------ library functions
\* 1/2 erfc(-z / sqrt 2), the standard normal CDF, at the arguments the
\* bounded configurations produce (math.erfc is a libm call).
NormCdf(z) ==
    CASE IsNaN(z) -> NaN
      [] z = PInf -> Scale
      [] z = NInf -> 0
      [] z = 0 -> Fx(1, 2)
      [] z = Scale \div 2 -> Fx(6915, 10000)
      [] z = -(Scale \div 2) -> Fx(3085, 10000)
      [] z = Scale -> Fx(8413, 10000)
      [] z = -Scale -> Fx(1587, 10000)
      [] z = 2 * Scale -> Fx(9772, 10000)
      [] z = -2 * Scale -> Fx(228, 10000)

\* 1 - exp(-u) at the arguments the bounded configurations produce; at
\* u = 100 the float64 result is exactly 1.0 (exp(-100) < 2^-53).
OneMinusExpNeg(u) ==
    CASE IsNaN(u) -> NaN
      [] u = PInf -> Scale
      [] u = 0 -> 0
      [] u = Fx(1, 100) -> Fx(995, 100000)
      [] u = Fx(1, 10) -> Fx(9516, 100000)
      [] u = Scale \div 2 -> Fx(39347, 100000)
      [] u = Scale -> Fx(63212, 100000)
      [] u = 2 * Scale -> Fx(86466, 100000)
      [] u = 10 * Scale -> Fx(99995, 100000)
      [] u = 100 * Scale -> Scale

\* 10 ** t at the arguments the bounded configurations produce.
Pow10(t) ==
    CASE IsNaN(t) -> NaN
      [] t = -2 * Scale -> Fx(1, 100)
      [] t = -Scale -> Fx(1, 10)
      [] t = 0 -> Scale
      [] t = Scale -> 10 * Scale
      [] t = 2 * Scale -> 100 * Scale

\* r ** s for s > 0, at the arguments the bounded configurations produce.
Pow(r, s) ==
    CASE IsNaN(r) \/ IsNaN(s) -> NaN
      [] r = PInf -> PInf
      [] IsFinite(r) /\ s = Scale -> r
      [] IsFinite(r) /\ s # Scale /\ (r = 0 \/ r = Scale) -> r

\* ------------------------------------------------------------------- pf
\* What pf raises when its rows have neither 3, 4 nor 5 columns: line 106
\* reads mu, which no branch has bound.
UnboundLocalError == "UnboundLocalError"

\* The core term F of one row, before the guess/lapse blend.
pfCore(psyfun, mu, sigma, x) ==
    CASE psyfun = "cGauss" -> NormCdf(FDiv(FSub(x, mu), sigma))
      [] psyfun = "Gumbel" -> OneMinusExpNeg(Pow10(FMul(sigma, FSub(x, mu))))
      [] psyfun = "Weibull" -> OneMinusExpNeg(Pow(FDiv(x, mu), sigma))
      [] OTHER -> Scale

pfBlend(gamma, llambda, p) == FAdd(gamma, FMul(FSub(FSub(Scale, gamma), llambda), p))

pfRow(row, psyfun) ==
    CASE Len(row) = 5 -> pfBlend(row[3], row[4], pfCore(psyfun, row[1], row[2], row[5]))
      [] Len(row) = 4 -> pfBlend(row[3], row[3], pfCore(psyfun, row[1], row[2], row[4]))
      [] Len(row) = 3 -> pfBlend(Fx(2, 10), Fx(4, 100), pfCore(psyfun, row[1], row[2], row[3]))

\* Whether the call raises: np.size(parameters, 1) is none of 5, 4, 3, so
\* the else branch (lines 101-104) runs and line 106 reads the unbound mu.
pfRaises(parameters) == Len(parameters[1]) \notin {3, 4, 5}

pf(parameters, psyfun) ==
    IF pfRaises(parameters)
    THEN UnboundLocalError
    ELSE [r \in 1..Len(parameters) |-> pfRow(parameters[r], psyfun)]

\* ------------------------------------------------------------ Psi.__init__
\* __genprior: the unnormalized prior over the grid x.  'uniform' and every
\* unknown name give 1/nx; the bounded configurations use no other family.
genprior(x, distr) == [i \in 1..Len(x) |-> FDiv(Scale, Len(x) * Scale)]

\* numpy's elementwise a == b reduced by all(), for 1-D arrays of equal
\* length or with one of length 1 (broadcast).
AllEqual(a, b) ==
    LET n == IF Len(a) >= Len(b) THEN Len(a) ELSE Len(b)
        At(s, i) == IF Len(s) = 1 THEN s[1] ELSE s[i]
    IN  \A i \in 1..n : At(a, i) = At(b, i)

gammaEQlambda(cfg) ==
    /\ AllEqual(cfg.guessRate, cfg.lapseRate)
    /\ AllEqual(genprior(cfg.guessRate, cfg.guessPrior), genprior(cfg.lapseRate, cfg.lapsePrior))

\* The parameter grids that span the likelihood table, in axis order, without
\* the stimulus axis: the guess axis is left out when eq holds.
ParamGrids(cfg, eq) ==
    IF eq THEN <<cfg.threshold, cfg.slope, cfg.lapseRate>>
          ELSE <<cfg.threshold, cfg.slope, cfg.guessRate, cfg.lapseRate>>

PriorGrids(cfg, eq) ==
    IF eq THEN <<genprior(cfg.threshold, cfg.thresholdPrior), genprior(cfg.slope, cfg.slopePrior),
                 genprior(cfg.lapseRate, cfg.lapsePrior)>>
          ELSE <<genprior(cfg.threshold, cfg.thresholdPrior), genprior(cfg.slope, cfg.slopePrior),
                 genprior(cfg.guessRate, cfg.guessPrior), genprior(cfg.lapseRate, cfg.lapsePrior)>>

\* np.prod(cartesian(priors), axis=1)
RowProducts(rows) == [r \in 1..Len(rows) |-> ProdSeq(rows[r])]

\* t / np.sum(t)
Normalize(t) == LET total == SumSeq(t) IN [i \in 1..Len(t) |-> FDiv(t[i], total)]

\* -------------------------------------------------------- Psi.__entropy
\* np.sum(t, axis=-2) of the table t of shape dims.
SumAxisM2(t, dims) ==
    LET k == Len(dims)
        dl == dims[k - 1]
        nx == dims[k]
        outer == ProdInts(SubSeq(dims, 1, k - 2))
    IN  [j \in 1..(outer * nx) |->
            SumSeq([l \in 1..dl |-> t[((((j - 1) \div nx) * dl) + (l - 1)) * nx + ((j - 1) % nx) + 1]])]

\* while postDims > 3: pdf = np.sum(pdf, axis=-2); postDims -= 1
RECURSIVE MarginalizeNuisance(_, _)
MarginalizeNuisance(t, dims) ==
    IF Len(dims) > 3
    THEN MarginalizeNuisance(SumAxisM2(t, dims), SubSeq(dims, 1, Len(dims) - 2) \o <<dims[Len(dims)]>>)
    ELSE t

\* np.multiply(pdf, np.log(pdf)) with every nan entry set to 0.
PLogP(p) == LET e == FMul(p, Log(p)) IN IF IsNaN(e) THEN 0 ELSE e

\* np.sum(t, axis = all axes but the last), the last axis having nx entries.
SumOverParams(t, nx) ==
    [x \in 1..nx |-> SumSeq([c \in 1..(Len(t) \div nx) |-> t[(c - 1) * nx + x]])]

entropy(pdf, dims, marginalize) ==
    LET t == IF marginalize THEN MarginalizeNuisance(pdf, dims) ELSE pdf
        nx == dims[Len(dims)]
        plogp == [k \in 1..Len(t) |-> PLogP(t[k])]
        sums == SumOverParams(plogp, nx)
    IN  [x \in 1..nx |-> FNeg(sums[x])]

\* np.argmin, as a 1-based index: the first nan if there is one, else the
\* first smallest entry.
ArgMin(e) ==
    IF \E i \in 1..Len(e) : IsNaN(e[i])
    THEN CHOOSE i \in 1..Len(e) : IsNaN(e[i]) /\ \A j \in 1..(i - 1) : ~IsNaN(e[j])
    ELSE CHOOSE i \in 1..Len(e) :
            /\ \A j \in 1..Len(e) : ~FLess(e[j], e[i])
            /\ \A j \in 1..(i - 1) : FLess(e[i], e[j])

\* ---------------------------------------------------- Psi.minEntropyStim
\* The steps of minEntropyStim on the instance o (a record of self's
\* attributes).  Between two steps another thread may run.
nXof(o) == Len(o.stimRange)

\* Lines 382-403: the hypothetical posteriors of both responses.
ComputePosteriors(o) ==
    LET nx == nXof(o)
        pdfND == [k \in 1..(Len(o.pdf) * nx) |-> o.pdf[((k - 1) \div nx) + 1]]
        pTplus1success == [k \in 1..Len(pdfND) |-> FMul(o.likelihood[k], pdfND[k])]
        pTplus1failure == [k \in 1..Len(pdfND) |-> FSub(pdfND[k], pTplus1success[k])]
        pS == SumOverParams(pTplus1success, nx)
        pF == SumOverParams(pTplus1failure, nx)
    IN  [o EXCEPT !.pSuccessGivenx = pS,
                  !.pFailureGivenx = pF,
                  !.posteriorTplus1success =
                      [k \in 1..Len(pdfND) |-> FDiv(pTplus1success[k], pS[((k - 1) % nx) + 1])],
                  !.posteriorTplus1failure =
                      [k \in 1..Len(pdfND) |-> FDiv(pTplus1failure[k], pF[((k - 1) % nx) + 1])]]

\* Lines 406-409.
expectEntropy(o) ==
    LET entropySuccess == entropy(o.posteriorTplus1success, o.dimensions, o.marginalize)
        entropyFailure == entropy(o.posteriorTplus1failure, o.dimensions, o.marginalize)
    IN  [x \in 1..nXof(o) |->
            FAdd(FMul(entropySuccess[x], o.pSuccessGivenx[x]),
                 FMul(entropyFailure[x], o.pFailureGivenx[x]))]

\* A variant of lines 406-410 that also restarts the Belief from the prior:
\* self.pdf = self.prior.
SelectIndexRestartingBelief(o) ==
    [o EXCEPT !.minEntropyInd = ArgMin(expectEntropy(o)), !.pdf = o.prior]

\* Lines 406-410.
SelectIndex(o) == [o EXCEPT !.minEntropyInd = ArgMin(expectEntropy(o))]

\* A variant of line 411 that never assigns xCurrent.
PublishNothing(o) == o

\* Line 411.
PublishStimulus(o) == [o EXCEPT !.xCurrent = o.stimRange[o.minEntropyInd]]

\* Line 413, self.iTrial += 1, is a load and a store.
StoreTrial(o, loaded) == [o EXCEPT !.iTrial = loaded + 1]

\* Lines 414-415.
StopBudget(o) == o.nTrials - 1

\* A variant of lines 414-415 that recomputes the flag at every run:
\* self.stop = int(self.iTrial == self.nTrials - 1).
CheckStopRecomputed(o) == [o EXCEPT !.stop = IF o.iTrial = StopBudget(o) THEN 1 ELSE 0]

CheckStop(o) == IF o.iTrial = StopBudget(o) THEN [o EXCEPT !.stop = 1] ELSE o

\* minEntropyStim run by one thread with no other thread in between.
minEntropyStim(o) ==
    LET published == PublishStimulus(SelectIndex(ComputePosteriors(o)))
    IN  CheckStop(StoreTrial(published, published.iTrial))

\* -------------------------------------------------------------- __init__
\* The instance Psi(...) returns for the configuration cfg; eq is
\* self.gammaEQlambda (line 250).
Construct(cfg, eq) ==
    LET grids == ParamGrids(cfg, eq)
        dims == Lens(grids) \o <<Len(cfg.stimRange)>>
    IN  minEntropyStim(
          [stimRange |-> cfg.stimRange,
           threshold |-> cfg.threshold,
           slope |-> cfg.slope,
           guessRate |-> cfg.guessRate,
           lapseRate |-> cfg.lapseRate,
           marginalize |-> cfg.marginalize,
           psyfun |-> cfg.Pfunction,
           thread |-> cfg.thread,
           gammaEQlambda |-> eq,
           dimensions |-> dims,
           likelihood |-> pf(cartesian(grids \o <<cfg.stimRange>>), cfg.Pfunction),
           prior |-> Normalize(RowProducts(cartesian(PriorGrids(cfg, eq)))),
           pdf |-> Normalize(RowProducts(cartesian(PriorGrids(cfg, eq)))),
           iTrial |-> 0,
           nTrials |-> cfg.nTrials,
           stop |-> 0,
           response |-> <<>>,
           stim |-> <<>>,
           pSuccessGivenx |-> <<>>,
           pFailureGivenx |-> <<>>,
           posteriorTplus1success |-> <<>>,
           posteriorTplus1failure |-> <<>>,
           minEntropyInd |-> 0,
           xCurrent |-> None])

Psi(cfg) == Construct(cfg, gammaEQlambda(cfg))

\* --------------------------------------------------------------- addData
\* posterior[Ellipsis, ind]
SliceAt(t, nx, ind) == [c \in 1..(Len(t) \div nx) |-> t[(c - 1) * nx + ind]]

\* A variant of lines 434-438 that takes the failure slice for response 1
\* and the success slice for response 0.
ResponseSliceSwapped(o, response) ==
    IF response = 1 THEN SliceAt(o.posteriorTplus1failure, nXof(o), o.minEntropyInd)
    ELSE IF response = 0 THEN SliceAt(o.posteriorTplus1success, nXof(o), o.minEntropyInd)
    ELSE o.pdf

\* Lines 434-438: the slice of the recorded response.
ResponseSlice(o, response) ==
    IF response = 1 THEN SliceAt(o.posteriorTplus1success, nXof(o), o.minEntropyInd)
    ELSE IF response = 0 THEN SliceAt(o.posteriorTplus1failure, nXof(o), o.minEntropyInd)
    ELSE o.pdf

\* A variant of line 428 that records the index of the stimulus, not its
\* value: self.stim.append(self.minEntropyInd).
RecordedIndex(o) == o.minEntropyInd

\* Line 428.
RecordedStimulus(o) == o.xCurrent

\* Lines 428-441, addData up to the start of the next selection.
RecordResponse(o, response) ==
    [o EXCEPT !.stim = Append(o.stim, RecordedStimulus(o)),
              !.response = Append(o.response, response),
              !.xCurrent = None,
              !.pdf = Normalize(ResponseSlice(o, response))]

\* Lines 444-453: marginals of the Belief over the threshold and slope axes.
pThreshold(o) ==
    LET inner == Len(o.pdf) \div o.dimensions[1]
    IN  [i \in 1..o.dimensions[1] |->
            SumSeq([c \in 1..inner |-> o.pdf[(i - 1) * inner + c]])]

pSlope(o) ==
    LET nS == o.dimensions[2]
        inner == Len(o.pdf) \div (o.dimensions[1] * nS)
    IN  [j \in 1..nS |->
            SumSeq([c \in 1..(o.dimensions[1] * inner) |->
                       o.pdf[((((c - 1) \div inner) * nS) + (j - 1)) * inner + ((c - 1) % inner) + 1]])]

\* -------------------------------------------------------- configurations
\* The grids of the bounded runs (values in fixed point).  The first is the
\* end-to-end scenario: thresholds [0, 1], slope [1], guess = lapse = [0],
\* stimuli [0, 1], cGauss.  The second shares a two-point guess/lapse grid,
\* the third keeps guess and lapse apart (as the shell does, with a scalar
\* guess rate), the fourth uses no psychometric function (flat line).
Grids ==
    << [Pfunction |-> "cGauss", threshold |-> <<0, Scale>>, slope |-> <<Scale>>,
        guessRate |-> <<0>>, lapseRate |-> <<0>>,
        stimRange |-> <<0, Scale>>, marginalize |-> TRUE],
       [Pfunction |-> "cGauss", threshold |-> <<0, Scale>>, slope |-> <<Scale>>,
        guessRate |-> <<0, Scale \div 4>>, lapseRate |-> <<0, Scale \div 4>>,
        stimRange |-> <<0, Scale>>, marginalize |-> TRUE],
       [Pfunction |-> "Gumbel", threshold |-> <<0, Scale>>, slope |-> <<2 * Scale>>,
        guessRate |-> <<Scale \div 2>>, lapseRate |-> <<0, Scale \div 4>>,
        stimRange |-> <<0, Scale>>, marginalize |-> FALSE],
       [Pfunction |-> "none", threshold |-> <<0, Scale>>, slope |-> <<Scale>>,
        guessRate |-> <<0>>, lapseRate |-> <<0>>,
        stimRange |-> <<0, Scale>>, marginalize |-> TRUE] >>

UniformPriors ==
    [thresholdPrior |-> "uniform", slopePrior |-> "uniform",
     guessPrior |-> "uniform", lapsePrior |-> "uniform"]

\* The constructor's arguments: a grid set, a trial budget, the thread flag.
Config(g, n, t) == Grids[g] @@ UniformPriors @@ [nTrials |-> n, thread |-> t]

Configs == {Config(g, n, t) : g \in 1..Len(Grids), n \in 1..MaxBudget, t \in BOOLEAN}

\* ------------------------------------------------------------------ state
\* psi_obj: the staircase instance (the module-level psi_obj of the shell).
\* config:  the arguments it was constructed with.
\* threads: the threads addData has started, in order; each is at a step of
\*          minEntropyStim (pc), holds the iTrial it loaded at line 413, and
\*          remembers whether every earlier thread had ended when it started.
\* pfCall:  a direct call of the module-level function pf: its arguments,
\*          whether it has been made, what it raised and what it returned.
VARIABLES psi_obj, config, threads, pfCall

vars == <<psi_obj, config, threads, pfCall>>

\* No direct call of pf: the shell reaches pf through Psi.__init__ only.
NoPfCall == [parameters |-> <<>>, psyfun |-> "none", called |-> FALSE, raised |-> "", y |-> <<>>]

Running(i) == threads[i].pc # "done"

InFlight == {i \in 1..Len(threads) : Running(i)}

Init ==
    /\ config \in Configs
    /\ psi_obj = Psi(config)
    /\ threads = <<>>
    /\ pfCall = NoPfCall

\* addData (lines 417-472) with the thread flag deciding lines 469-472.
DoAddData(response) ==
    /\ Len(psi_obj.response) < MaxResp
    /\ IF psi_obj.thread
       THEN /\ psi_obj' = RecordResponse(psi_obj, response)
            /\ threads' = Append(threads, [pc |-> "posteriors", loaded |-> 0,
                                           alone |-> InFlight = {}])
       ELSE /\ psi_obj' = minEntropyStim(RecordResponse(psi_obj, response))
            /\ threads' = threads
    /\ UNCHANGED <<config, pfCall>>

\* The shell's call (where_is_your_finger, lines 672-674): addData, then a
\* poll until xCurrent is not None; the next call comes after the poll.
addData(response) ==
    /\ psi_obj.xCurrent # None
    /\ DoAddData(response)

\* A caller of the class that does not poll: addData while xCurrent is None.
addDataUnpolled(response) ==
    /\ psi_obj.xCurrent = None
    /\ DoAddData(response)

Step(i, from, to, obj) ==
    /\ threads[i].pc = from
    /\ threads' = [threads EXCEPT ![i].pc = to]
    /\ psi_obj' = obj
    /\ UNCHANGED <<config, pfCall>>

WorkerPosteriors(i) == Step(i, "posteriors", "select", ComputePosteriors(psi_obj))

WorkerSelect(i) == Step(i, "select", "publish", SelectIndex(psi_obj))

WorkerPublish(i) == Step(i, "publish", "load", PublishStimulus(psi_obj))

WorkerLoad(i) ==
    /\ threads[i].pc = "load"
    /\ threads' = [threads EXCEPT ![i].pc = "store", ![i].loaded = psi_obj.iTrial]
    /\ UNCHANGED <<psi_obj, config, pfCall>>

WorkerStore(i) == Step(i, "store", "stop", StoreTrial(psi_obj, threads[i].loaded))

WorkerStop(i) == Step(i, "stop", "done", CheckStop(psi_obj))

Next ==
    \/ \E response \in {0, 1} : addData(response)
    \/ \E i \in 1..Len(threads) : WorkerPosteriors(i)
    \/ \E i \in 1..Len(threads) : WorkerSelect(i)
    \/ \E i \in 1..Len(threads) : WorkerPublish(i)
    \/ \E i \in 1..Len(threads) : WorkerLoad(i)
    \/ \E i \in 1..Len(threads) : WorkerStore(i)
    \/ \E i \in 1..Len(threads) : WorkerStop(i)

Spec == Init /\ [][Next]_vars

NextAnyCaller ==
    \/ Next
    \/ \E response \in {0, 1} : addDataUnpolled(response)

SpecAnyCaller == Init /\ [][NextAnyCaller]_vars

\* ------------------------------------------------------------ scheduling
\* One step of thread i, whichever statement it is at.
WorkerStep(i) ==
    /\ i \in 1..Len(threads)
    /\ \/ WorkerPosteriors(i)
       \/ WorkerSelect(i)
       \/ WorkerPublish(i)
       \/ WorkerLoad(i)
       \/ WorkerStore(i)
       \/ WorkerStop(i)

\* The interpreter switches threads in bounded time: a started thread that
\* has a statement left to run eventually runs it.  This is weak fairness
\* of WorkerStep(i), written out by its definition (infinitely often not
\* enabled, or infinitely often taken); WorkerStep(i) is enabled exactly
\* when thread i is in flight, since each statement's guard is the
\* thread's position alone and each statement moves the position.
WorkersScheduled ==
    \A i \in 1..MaxResp : []<>(i \notin InFlight) \/ []<><<WorkerStep(i)>>_vars

SpecFair == Spec /\ WorkersScheduled

\* ----------------------------------------------------------------- reset
\* The trial of a session after which the shell resets (trial_num == 50 at
\* line 706); the bounded session has MaxResp trials.
SessionTrials == MaxResp

\* where_is_your_finger, lines 706-707, and reset, lines 709-721: after the
\* addData and the poll of the session's last trial, the module-level
\* psi_obj is bound to a fresh instance built from the same arguments.  The
\* threads addData had started keep the replaced instance as their self;
\* no statement reads that instance again, so they leave the state.
reset ==
    /\ psi_obj.xCurrent # None
    /\ Len(psi_obj.response) = SessionTrials
    /\ psi_obj' = Psi(config)
    /\ threads' = <<>>
    /\ UNCHANGED <<config, pfCall>>

NextShell ==
    \/ Next
    \/ reset

SpecShell == Init /\ [][NextShell]_vars

\* ------------------------------------------------------- direct pf calls
\* The function selectors pf distinguishes (lines 107-119); every other
\* value, None included, takes the last branch.
Selectors == {"cGauss", "Gumbel", "Weibull", "none"}

\* The parameter rows of n columns with entries 0.0 or 1.0, the slope
\* column (the second) being 1.0.
PfRows(n) == {row \in [1..n -> {0, Scale}] : n >= 2 => row[2] = Scale}

\* The parameter tables pf is called with: one or two rows of 1 to
\* MaxCols columns.
PfTables ==
    UNION {{<<r1>> : r1 \in PfRows(n)} \cup {<<r1, r2>> : r1 \in PfRows(n), r2 \in PfRows(n)} :
              n \in 1..MaxCols}

InitPf ==
    /\ config = Config(1, MaxBudget, FALSE)
    /\ psi_obj = Psi(config)
    /\ threads = <<>>
    /\ pfCall \in {[NoPfCall EXCEPT !.parameters = p, !.psyfun = f] :
                      p \in PfTables, f \in Selectors}

\* y = pf(parameters, psyfun): the call raises or returns a table.
CallPf ==
    /\ ~pfCall.called
    /\ pfCall' = IF pfRaises(pfCall.parameters)
                 THEN [pfCall EXCEPT !.called = TRUE, !.raised = pf(pfCall.parameters, pfCall.psyfun)]
                 ELSE [pfCall EXCEPT !.called = TRUE, !.y = pf(pfCall.parameters, pfCall.psyfun)]
    /\ UNCHANGED <<psi_obj, config, threads>>

NextPf == CallPf

SpecPf == InitPf /\ [][NextPf]_vars

\* ================================================================ claims
GridValues(o) == {o.stimRange[x] : x \in 1..Len(o.stimRange)}

\* Every update the caller started had ended before the next one started,
\* and all have ended.
UpdatesCompleted == InFlight = {} /\ \A i \in 1..Len(threads) : threads[i].alone

\* C1: a recordResponse (addData) call made while the pending stimulus is
\* still the None sentinel is rejected: while xCurrent is None no step
\* changes the Belief, the history or the trial counter's owner data, i.e.
\* pdf, stim and response stay as they were.
C1_UnpolledCallRejected ==
    [][psi_obj.xCurrent = None =>
          /\ psi_obj'.pdf = psi_obj.pdf
          /\ psi_obj'.stim = psi_obj.stim
          /\ psi_obj'.response = psi_obj.response]_vars

\* C2: in every reachable state at most one minEntropyStim worker of the
\* instance is in flight, the caller polling xCurrent before each addData.
C2_OneWorkerInFlight == Cardinality(InFlight) <= 1

\* C3: xCurrent is None exactly while a selection run is in flight (from the
\* accepted response until that run has completed); otherwise it is a value
\* of the stimulus grid.
C3_SentinelExactlyWhileComputing ==
    /\ (psi_obj.xCurrent = None) <=> (InFlight # {})
    /\ psi_obj.xCurrent # None => psi_obj.xCurrent \in GridValues(psi_obj)

\* The values selection runs have stored into iTrial so far: the
\* constructor's run stores 1; without threads the run of response k stores
\* k + 1; a thread past its store has stored loaded + 1.
StoredTrials ==
    {1} \cup (IF psi_obj.thread
              THEN {threads[i].loaded + 1 :
                       i \in {j \in 1..Len(threads) : threads[j].pc \in {"stop", "done"}}}
              ELSE 2..psi_obj.iTrial)

\* The values completed selection runs have stored into iTrial.
CompletedTrials ==
    {1} \cup (IF psi_obj.thread
              THEN {threads[i].loaded + 1 :
                       i \in {j \in 1..Len(threads) : threads[j].pc = "done"}}
              ELSE 2..psi_obj.iTrial)

\* C4: stop is set by the selection run that brings iTrial to nTrials - 1
\* (once such a run has completed, stop is 1), and stop is not set unless
\* the counter has equalled nTrials - 1.
C4_StopAtBudgetMinusOne ==
    /\ (psi_obj.nTrials - 1) \in CompletedTrials => psi_obj.stop = 1
    /\ psi_obj.stop = 1 => (psi_obj.nTrials - 1) \in StoredTrials

\* C5: the counter counts the completed selection runs: whenever no
\* computation is outstanding, iTrial = (number of recorded responses) + 1.
C5_CounterIsResponsesPlusOne ==
    InFlight = {} => psi_obj.iTrial = Len(psi_obj.response) + 1

\* The table t is a distribution: every entry is a finite number >= 0 and
\* the entries sum to 1, up to one rounding unit per entry.
IsDistribution(t) ==
    /\ \A c \in 1..Len(t) : IsFinite(t[c]) /\ t[c] >= 0
    /\ SumSeq(t) - Scale \in (-Len(t))..Len(t)

\* C6: after every recordResponse the Belief is a well-defined distribution
\* (no nan entry, non-negative, sums to 1), whatever the response bit.
C6_BeliefIsDistribution == IsDistribution(psi_obj.pdf)

\* The Belief is a distribution unless it holds a nan.
BeliefNormalizedUnlessNaN ==
    (\A c \in 1..Len(psi_obj.pdf) : ~IsNaN(psi_obj.pdf[c])) => IsDistribution(psi_obj.pdf)

\* The instance after the responses rs, each update run to its end before
\* the next response is recorded.
RECURSIVE SequentialRun(_, _)
SequentialRun(o, rs) ==
    IF rs = <<>> THEN o
    ELSE SequentialRun(minEntropyStim(RecordResponse(o, Head(rs))), Tail(rs))

\* The end-to-end scenario: thresholds [0, 1], slope [1], guess = lapse =
\* [0], stimuli [0, 1], cGauss, trial budget 3; responses 1 then 0 recorded,
\* each update completed.
ScenarioRun ==
    /\ config \in {Config(1, 3, t) : t \in BOOLEAN}
    /\ psi_obj.response = <<1, 0>>
    /\ UpdatesCompleted

\* C7 as stated: after the scenario the trial counter equals 2 and the
\* termination flag is set.
C7_CounterIsTwo == ScenarioRun => (psi_obj.iTrial = 2 /\ psi_obj.stop = 1)

\* C7 as amended: after the scenario the trial counter equals 3 (the
\* constructor's selection and one per response) and the termination flag,
\* set when the counter was 2 = budget - 1, is set.
C7_CounterIsThree == ScenarioRun => (psi_obj.iTrial = 3 /\ psi_obj.stop = 1)

C7_ScenarioReached == ScenarioRun /\ Len(threads) = 2

C9_Deterministic ==
    InFlight = {} =>
        LET ref == SequentialRun(Psi(config), psi_obj.response)
        IN  /\ psi_obj.stim = ref.stim
            /\ psi_obj.xCurrent = ref.xCurrent
            /\ psi_obj.iTrial = ref.iTrial
            /\ psi_obj.stop = ref.stop

\* Two marginals agree up to one rounding unit per cell summed.
Close(a, b, cells) == \A i \in 1..Len(a) : a[i] - b[i] \in (-cells)..cells

\* C10: with identical guess and lapse grids and priors, the run on the
\* collapsed axis (what the constructor builds) and the run on the full
\* guess x lapse product select the same stimuli and have the same
\* threshold and slope marginals, for every response sequence.
C10_SharedAxisEquivalence ==
    (gammaEQlambda(config) /\ ~config.thread) =>
        LET full == SequentialRun(Construct(config, FALSE), psi_obj.response)
        IN  /\ psi_obj.stim = full.stim
            /\ psi_obj.xCurrent = full.xCurrent
            /\ Close(pThreshold(psi_obj), pThreshold(full), Len(full.pdf))
            /\ Close(pSlope(psi_obj), pSlope(full), Len(full.pdf))

\* The flat-line result: F = 1 in every row, blended with the default
\* guess 0.2 and lapse 0.04.
FlatLine(parameters) == [r \in 1..Len(parameters) |-> pfBlend(Fx(2, 10), Fx(4, 100), Scale)]

\* C11: pf called with rows whose column count is not 3, 4 or 5 does not
\* fail: whatever the selector, it returns the flat-line result.
C11_MalformedRowsGiveFlatLine ==
    (pfCall.called /\ Len(pfCall.parameters[1]) \notin {3, 4, 5}) =>
        /\ pfCall.raised = ""
        /\ pfCall.y = FlatLine(pfCall.parameters)

\* A call with 3, 4 or 5 columns returns one probability per row.
PfWellFormedReturns ==
    (pfCall.called /\ Len(pfCall.parameters[1]) \in {3, 4, 5}) =>
        /\ pfCall.raised = ""
        /\ Len(pfCall.y) = Len(pfCall.parameters)
        /\ \A r \in 1..Len(pfCall.y) : IsNaN(pfCall.y[r]) \/ pfCall.y[r] \in 0..Scale

\* C12: after every recorded response, under fair scheduling of the worker
\* threads, the pending stimulus eventually is a value of the stimulus
\* grid again, so the caller's poll on xCurrent ends.
C12_PollTerminates ==
    (psi_obj.xCurrent = None) ~> (psi_obj.xCurrent \in GridValues(psi_obj))

\* A worker has just published the stimulus that follows a recorded response.
C12_WorkerPublished ==
    /\ psi_obj.thread
    /\ Len(psi_obj.response) >= 1
    /\ psi_obj.xCurrent \in GridValues(psi_obj)
    /\ threads[Len(threads)].pc = "load"

\* C13: for every positive trial budget (1 and 2 included) the termination
\* flag is not set before the first response has been recorded, and a run
\* whose caller keeps recording eventually has it set: it is set once the
\* caller has recorded MaxResp >= MaxBudget - 1 responses and every update
\* has ended.
C13_TerminatesAfterFirstResponse ==
    /\ psi_obj.response = <<>> => psi_obj.stop = 0
    /\ (Len(psi_obj.response) = MaxResp /\ InFlight = {}) => psi_obj.stop = 1

\* With trial budget 1 the flag is never set: the counter starts at 1 and
\* only grows, so it never equals nTrials - 1 = 0.
BudgetOneNeverStops == psi_obj.nTrials = 1 => psi_obj.stop = 0

\* With trial budget 2 the flag is set by the constructor's own selection.
BudgetTwoStopsAtConstruction == psi_obj.nTrials = 2 => psi_obj.stop = 1

\* C14: addData(bit) installs as the new Belief the normalized slice, at the
\* index of the stimulus it records, of the hypothetical posterior of that
\* bit; the tables and the index it reads are those of the selection run on
\* the Belief it replaces (the run that published the recorded stimulus),
\* and no thread is before its publication at that moment.
C14_SliceOfRecordedStimulus ==
    [][psi_obj'.response # psi_obj.response =>
          LET run == SelectIndex(ComputePosteriors(psi_obj))
              bit == psi_obj'.response[Len(psi_obj'.response)]
              table == IF bit = 1 THEN run.posteriorTplus1success
                                  ELSE run.posteriorTplus1failure
          IN  /\ \A i \in InFlight : threads[i].pc \in {"load", "store", "stop"}
              /\ psi_obj.posteriorTplus1success = run.posteriorTplus1success
              /\ psi_obj.posteriorTplus1failure = run.posteriorTplus1failure
              /\ psi_obj.minEntropyInd = run.minEntropyInd
              /\ psi_obj'.stim[Len(psi_obj'.stim)] = psi_obj.stimRange[run.minEntropyInd]
              /\ psi_obj'.pdf = Normalize(SliceAt(table, nXof(psi_obj), run.minEntropyInd))]_vars

\* A response was recorded while the thread of the response before it had
\* published its stimulus but not ended; the two Beliefs differ.
C14_RecordedDuringOlderRun ==
    /\ Len(threads) = 2
    /\ threads[1].pc \in {"load", "store", "stop"}
    /\ psi_obj.pdf # psi_obj.prior

\* C15: in the shell's use (record, poll, reset after the session's last
\* trial) the replacement instance is never constructed while a thread of
\* the instance being replaced is still running.
C15_ResetAfterWorkersEnded ==
    [][(psi_obj.response # <<>> /\ psi_obj'.response = <<>>) => InFlight = {}]_vars

\* C16: the Belief changes only when a response is recorded, and then to
\* the normalized slice of that response; every other step (the statements
\* of minEntropyStim, on a thread or inside addData) leaves the Belief and
\* the history alone; the likelihood table, the prior and the grids never
\* change after construction.
C16_BeliefChangedByAddDataOnly ==
    [][/\ psi_obj'.likelihood = psi_obj.likelihood
       /\ psi_obj'.prior = psi_obj.prior
       /\ psi_obj'.threshold = psi_obj.threshold
       /\ psi_obj'.slope = psi_obj.slope
       /\ psi_obj'.guessRate = psi_obj.guessRate
       /\ psi_obj'.lapseRate = psi_obj.lapseRate
       /\ psi_obj'.stimRange = psi_obj.stimRange
       /\ psi_obj'.response = psi_obj.response =>
             (psi_obj'.pdf = psi_obj.pdf /\ psi_obj'.stim = psi_obj.stim)
       /\ psi_obj'.response # psi_obj.response =>
             \E bit \in {0, 1} :
                 /\ psi_obj'.response = Append(psi_obj.response, bit)
                 /\ psi_obj'.pdf = Normalize(ResponseSlice(psi_obj, bit))]_vars

\* A selection run has completed on a Belief that a response had changed.
C16_SelectionAfterUpdate ==
    /\ psi_obj.response # <<>>
    /\ psi_obj.pdf # psi_obj.prior
    /\ InFlight = {}
    /\ psi_obj.xCurrent \in GridValues(psi_obj)

\* C17: with thread=True, whenever xCurrent is not None after a recorded
\* response, the counter is (number of responses) + 1 and the flag has the
\* value the completed selection gives it.
C17_FreshStimulusFreshCounter ==
    (psi_obj.thread /\ psi_obj.response # <<>> /\ psi_obj.xCurrent # None) =>
        /\ psi_obj.iTrial = Len(psi_obj.response) + 1
        /\ psi_obj.stop = SequentialRun(Psi(config), psi_obj.response).stop

====
